---- MODULE Spec2Model ----
(***************************************************************************)
(* greenboot-rs: the diagnostics engine (src/lib/greenboot.rs), the two     *)
(* flows of main (src/main.rs: health_check and trigger_rollback) and the  *)
(* boot-partition mount guard (src/handler/mount.rs), as state machines.   *)
(*                                                                         *)
(* The file system, the exit statuses of the health-check artifacts, the   *)
(* mount table and the results of the collaborators (motd, grub            *)
(* environment, reboot, rollback, journal, mount(2)) are the environment:  *)
(* each is read when the code reads it, and drawn from a bounded set.      *)
(*                                                                         *)
(* Spec is one run of main, LiveSpec one in which every call returns, and  *)
(* MountSpec a process calling the mount guard.                            *)
(***************************************************************************)
EXTENDS Integers, Sequences, FiniteSets, TLC

\* ------------------------------------------------------------------ bounds

\* The longest skip list passed to run_diagnostics.
MaxSkipped == 2

\* ------------------------------------------------------------- constants

\* static GREENBOOT_INSTALL_PATHS: [&str; 2]
GREENBOOT_INSTALL_PATHS == <<"/usr/lib/greenboot", "/etc/greenboot">>

\* GreenbootConfig::set_default: max_reboot
DefaultMaxReboot == 3

\* What Config::builder().build() and get_int("GREENBOOT_MAX_BOOT_ATTEMPTS")
\* may give: no readable file, no such key, or an i64 (70000 exceeds u16).
ConfigFiles ==
    { [parsed |-> FALSE, has_key |-> FALSE, value |-> 0],
      [parsed |-> TRUE, has_key |-> FALSE, value |-> 0],
      [parsed |-> TRUE, has_key |-> TRUE, value |-> 2],
      [parsed |-> TRUE, has_key |-> TRUE, value |-> 70000],
      [parsed |-> TRUE, has_key |-> TRUE, value |-> -1] }

\* The file names a directory may hold (stem and extension), in the
\* alphabetical order in which glob yields them.
FileNames ==
    << [stem |-> "01_check", ext |-> "sh"],
       [stem |-> "02_check", ext |-> "sh"],
       [stem |-> "03_check", ext |-> ""] >>

Names == {FileNames[i] : i \in 1..Len(FileNames)}

\* What fs::metadata(entry) returns: an error (a dangling link), or the file
\* type and the permission bits (0o754 = 492, 0o644 = 420).
Metas ==
    { [stat_ok |-> TRUE, is_file |-> TRUE, mode |-> 492],
      [stat_ok |-> TRUE, is_file |-> TRUE, mode |-> 420],
      [stat_ok |-> TRUE, is_file |-> FALSE, mode |-> 492],
      [stat_ok |-> FALSE, is_file |-> FALSE, mode |-> 0] }

\* How Command::output() ends: Ok with a zero status, Ok with a non-zero
\* status, or Err (the child could not be spawned).
Status == {"success", "failed", "spawn_error"}

\* A name a directory does not hold, and one it holds with its metadata.
Absent == [present |-> FALSE]
Present(meta) == [present |-> TRUE, meta |-> meta]

\* disabled_scripts: Option<&[String]>
NoneDisabled == [some |-> FALSE]
SomeDisabled(names) == [some |-> TRUE, names |-> names]

\* A required.d directory the required phase has not reached.
Unscanned == [state |-> "unscanned"]

\* ------------------------------------------------------- run_scripts

\* mode & 0o001 != 0 || mode & 0o010 != 0 || mode & 0o100 != 0
HasExecBit(mode) ==
    \/ mode % 2 # 0
    \/ (mode \div 8) % 2 # 0
    \/ (mode \div 64) % 2 # 0

\* The filter closure of run_scripts over one glob result.
IsValid(entry) ==
    IF entry.meta.stat_ok
    THEN /\ entry.meta.is_file
         /\ (entry.path.ext = "sh" \/ HasExecBit(entry.meta.mode))
    ELSE FALSE

\* glob("{path}*") followed by the filter: the valid entries, in glob's order.
Valid(raw) == SelectSeq(raw, IsValid)

\* The directory listing of a choice f of what each name is (or Absent).
RECURSIVE Listing(_, _)
Listing(f, i) ==
    IF i > Len(FileNames) THEN <<>>
    ELSE (IF f[i].present THEN <<[path |-> FileNames[i], meta |-> f[i].meta]>> ELSE <<>>)
         \o Listing(f, i + 1)

\* Every listing glob may yield for an existing directory.
DirListings == {Listing(f, 1) : f \in [1..Len(FileNames) -> {Absent} \cup {Present(m) : m \in Metas}]}

\* The valid entries, each with the way its execution ends.
WithStatus(valid, st) ==
    [i \in 1..Len(valid) |-> [path |-> valid[i].path, status |-> st[i]]]

\* The command run_scripts builds for an entry: bash -C for *.sh, else the file.
CommandOf(entry) == IF entry.path.ext = "sh" THEN "bash" ELSE "direct"

\* Faulty variant of IsDisabled: the skip list is honoured for *.sh entries only.
IsDisabled_ScriptsOnly(disabled, file_name) ==
    IF disabled.some THEN file_name \in disabled.names /\ file_name.ext = "sh" ELSE FALSE

\* Faulty variant of IsDisabled: the skip list is never consulted.
IsDisabled_Never(disabled, file_name) == FALSE

\* disabled.contains(&file_name) under `if let Some(disabled)`.
IsDisabled(disabled, file_name) ==
    IF disabled.some THEN file_name \in disabled.names ELSE FALSE

\* Faulty variants of BreaksOnFailure: no tier breaks; every tier breaks.
BreaksOnFailure_Never(name) == FALSE
BreaksOnFailure_Always(name) == TRUE

\* The `if name == "required" { break; }` after a failure record.
BreaksOnFailure(name) == name = "required"

\* The for loop of run_scripts from entry i on; acc is the ScriptRunResult
\* built so far, with the trace of the commands run.
RECURSIVE RunLoop(_, _, _, _, _)
RunLoop(name, entries, disabled, i, acc) ==
    IF i > Len(entries) THEN acc
    ELSE LET entry == entries[i] IN
         IF IsDisabled(disabled, entry.path)
         THEN RunLoop(name, entries, disabled, i + 1,
                      [acc EXCEPT !.skipped = Append(@, entry.path)])
         ELSE LET ran == [acc EXCEPT !.executed =
                              Append(@, [path |-> entry.path, cmd |-> CommandOf(entry)])]
                  failed == [ran EXCEPT !.errors =
                              Append(@, [name |-> name, path |-> entry.path])]
              IN IF entry.status = "success"
                 THEN RunLoop(name, entries, disabled, i + 1, ran)
                 ELSE IF BreaksOnFailure(name)
                      THEN failed
                      ELSE RunLoop(name, entries, disabled, i + 1, failed)

\* run_scripts(name, path, disabled_scripts) over the valid entries of path.
\* The glob pattern "{path}*" of the four fixed directories is well formed,
\* so the Err arm of the match on glob() is never taken.
RunScripts(name, root, entries, disabled) ==
    RunLoop(name, entries, disabled, 1,
            [name |-> name, root |-> root, entries |-> entries,
             errors |-> <<>>, skipped |-> <<>>, executed |-> <<>>])

NoResult ==
    [name |-> "none", root |-> 0, entries |-> <<>>,
     errors |-> <<>>, skipped |-> <<>>, executed |-> <<>>]

Range(s) == {s[i] : i \in 1..Len(s)}

\* -------------------------------------------------------------- state

VARIABLES
    pc,                 \* position in health_check / run_diagnostics
    root,               \* index into GREENBOOT_INSTALL_PATHS of the running loop
    config,             \* GreenbootConfig.max_reboot
    previous_rollback,  \* health_check: previous_rollback
    skipped,            \* run_diagnostics: the skipped argument
    path_exists,        \* run_diagnostics: path_exists
    all_skipped,        \* run_diagnostics: all_skipped
    result,             \* the ScriptRunResult of the last run_scripts call
    errors,             \* run_red / run_green: errors
    diag,               \* what run_diagnostics returned
    ret,                \* what health_check returned
    calls,              \* the collaborator calls made, in order
    required_dirs,      \* per root: what the required phase met there
    scanned,            \* the directories run_scripts was called on
    found,              \* names of skipped met as valid entries by run_diagnostics
    tier_errors,        \* the tiers in which a failure record was produced
    required_ok,        \* whether the required.d directories met allow a pass
    journal_report,     \* what the journal query of this run reported
    BOOT_WAS_RO,        \* handler/mount.rs: static BOOT_WAS_RO
    mounts,             \* the lines of /proc/mounts
    mount_log           \* the calls of remount_boot_ro / remount_boot_rw, in order

\* The state of main.rs and lib/greenboot.rs, and that of handler/mount.rs.
flow_vars == <<pc, root, config, previous_rollback, skipped, path_exists, all_skipped,
               result, errors, diag, ret, calls, required_dirs, scanned, found,
               tier_errors, required_ok, journal_report>>

mount_vars == <<BOOT_WAS_RO, mounts, mount_log>>

vars == <<flow_vars, mount_vars>>

Roots == 1..Len(GREENBOOT_INSTALL_PATHS)

NotReturned == [state |-> "running"]

\* journal_report before check_previous_rollback has run.
NotQueried == "not queried"

\* main: `match cli.command`; where each subcommand starts.
Commands == {"health-check", "rollback"}
EntryOf(command) == IF command = "health-check" THEN "get_config" ELSE "handle_rollback"

\* The skip lists a health check may be given; the rollback flow has none.
SkipLists(command) ==
    IF command = "health-check"
    THEN {s \in SUBSET Names : Cardinality(s) <= MaxSkipped}
    ELSE {{}}

Init ==
    /\ \E command \in Commands :
         /\ pc = EntryOf(command)
         /\ skipped \in SkipLists(command)
    /\ root = 1
    /\ config = DefaultMaxReboot
    /\ previous_rollback = FALSE
    /\ path_exists = FALSE
    /\ all_skipped = {}
    /\ result = NoResult
    /\ errors = <<>>
    /\ diag = NotReturned
    /\ ret = NotReturned
    /\ calls = <<>>
    /\ required_dirs = [r \in Roots |-> Unscanned]
    /\ scanned = {}
    /\ found = {}
    /\ tier_errors = {}
    /\ required_ok = FALSE
    /\ journal_report = NotQueried
    /\ BOOT_WAS_RO = FALSE
    /\ mounts = <<>>
    /\ mount_log = <<>>

\* ------------------------------------------------------------ main.rs

\* GreenbootConfig::get_config: the key's value when it fits a u16, else the default.
get_config(file) ==
    IF file.parsed /\ file.has_key /\ file.value >= 0 /\ file.value <= 65535
    THEN file.value
    ELSE DefaultMaxReboot

\* What journalctl -b -1 -u greenboot-rollback.service may give.
Journals ==
    { [spawned |-> FALSE, exit_ok |-> FALSE, utf8 |-> TRUE, text |-> ""],
      [spawned |-> TRUE, exit_ok |-> FALSE, utf8 |-> TRUE, text |-> "Rollback successful"],
      [spawned |-> TRUE, exit_ok |-> TRUE, utf8 |-> FALSE, text |-> ""],
      [spawned |-> TRUE, exit_ok |-> TRUE, utf8 |-> TRUE, text |-> ""],
      [spawned |-> TRUE, exit_ok |-> TRUE, utf8 |-> TRUE, text |-> "Rollback is not initiated"],
      [spawned |-> TRUE, exit_ok |-> TRUE, utf8 |-> TRUE, text |-> "Rollback successful"] }

\* How the journal query of a run ended, as the run's environment saw it: the
\* command could not be run, exited with a failure or wrote no UTF-8 ("failed");
\* else whether its output holds the marker "Rollback successful".
JournalReport(journal) ==
    IF ~journal.spawned \/ ~journal.exit_ok \/ ~journal.utf8 THEN "failed"
    ELSE IF journal.text = "Rollback successful" THEN "marker"
    ELSE "no marker"

\* Faulty variant of check_previous_rollback: the exit status is not looked at.
check_previous_rollback_IgnoresExit(journal) ==
    IF ~journal.spawned THEN [ok |-> FALSE, value |-> FALSE]
    ELSE IF ~journal.utf8 THEN [ok |-> FALSE, value |-> FALSE]
    ELSE IF journal.text = "" THEN [ok |-> TRUE, value |-> FALSE]
    ELSE [ok |-> TRUE, value |-> journal.text = "Rollback successful"]

\* check_previous_rollback() -> Result<bool>
check_previous_rollback(journal) ==
    IF ~journal.spawned THEN [ok |-> FALSE, value |-> FALSE]
    ELSE IF ~journal.exit_ok THEN [ok |-> TRUE, value |-> FALSE]
    ELSE IF ~journal.utf8 THEN [ok |-> FALSE, value |-> FALSE]
    ELSE IF journal.text = "" THEN [ok |-> TRUE, value |-> FALSE]
    ELSE [ok |-> TRUE, value |-> journal.text = "Rollback successful"]

\* generate_motd_message(base_msg, previous_rollback): prefix and base message.
generate_motd_message(base_msg, rollback) ==
    [prefix |-> IF rollback THEN "FALLBACK BOOT DETECTED!" ELSE "", base |-> base_msg]

Ok(v) == [state |-> "ok", value |-> v]
Err(msg) == [state |-> "err", msg |-> msg]

\* One collaborator call, with what it was given and whether it succeeded.
Call(op, arg, ok) == [op |-> op, arg |-> arg, ok |-> ok]

\* What a directory read may give: nothing when the directory is missing.
ReadDir(exists) == IF exists THEN DirListings ELSE {<<>>}

\* The names of a sequence of paths or records.
PathsOf(entries) == {entries[i].path : i \in 1..Len(entries)}

\* health_check: let config = GreenbootConfig::get_config()
GetConfig ==
    /\ pc = "get_config"
    /\ \E file \in ConfigFiles : config' = get_config(file)
    /\ pc' = "check_previous_rollback"
    /\ UNCHANGED <<root, previous_rollback, skipped, path_exists, all_skipped, result,
                   errors, diag, ret, calls, required_dirs, scanned, found, tier_errors,
                   required_ok, journal_report, mount_vars>>

\* health_check: the match on check_previous_rollback(); Err defaults to false.
CheckPreviousRollback ==
    /\ pc = "check_previous_rollback"
    /\ \E journal \in Journals :
         LET r == check_previous_rollback(journal) IN
         /\ previous_rollback' = IF r.ok THEN r.value ELSE FALSE
         /\ journal_report' = JournalReport(journal)
    /\ pc' = "motd_in_progress"
    /\ UNCHANGED <<root, config, skipped, path_exists, all_skipped, result,
                   errors, diag, ret, calls, required_dirs, scanned, found, tier_errors,
                   required_ok, mount_vars>>

\* health_check: handle_motd(in progress)?  -- an error is returned at once.
MotdInProgress ==
    /\ pc = "motd_in_progress"
    /\ \E ok \in BOOLEAN :
         /\ calls' = Append(calls, Call("handle_motd",
                       generate_motd_message("Greenboot healthcheck is in progress",
                                             previous_rollback), ok))
         /\ IF ok
            THEN /\ pc' = "required"
                 /\ ret' = ret
            ELSE /\ pc' = "done"
                 /\ ret' = Err("handle_motd")
    /\ root' = 1
    /\ UNCHANGED <<config, previous_rollback, skipped, path_exists, all_skipped, result,
                   errors, diag, required_dirs, scanned, found, tier_errors,
                   required_ok, journal_report, mount_vars>>

\* ------------------------------------------------------ run_diagnostics

\* Facts about a required.d directory, read off the directory and the trace:
\* an entry outside the skip list that does not succeed; an executed entry
\* that did not succeed.
HasRunnableFailure(entries, names) ==
    \E i \in 1..Len(entries) :
        entries[i].path \notin names /\ entries[i].status # "success"

ExecutedFailure(res) ==
    \E i \in 1..Len(res.executed) : \E j \in 1..Len(res.entries) :
        /\ res.entries[j].path = res.executed[i].path
        /\ res.entries[j].status # "success"

SkippedFailure(entries, names) ==
    \E i \in 1..Len(entries) :
        entries[i].path \in names /\ entries[i].status # "success"

AbsentDir ==
    [state |-> "absent", has_failing |-> FALSE, skipped_failing |-> FALSE,
     exec_failed |-> FALSE, has_errors |-> FALSE]

ScannedDir(res, names) ==
    [state |-> "scanned",
     has_failing |-> HasRunnableFailure(res.entries, names),
     skipped_failing |-> SkippedFailure(res.entries, names),
     exec_failed |-> ExecutedFailure(res),
     has_errors |-> res.errors # <<>>]

\* What the required.d directories alone say of the verdict: one exists, and
\* none holds an entry outside the skip list that does not succeed.
RequiredVerdict(dirs) ==
    /\ \E r \in DOMAIN dirs : dirs[r].state = "scanned"
    /\ \A r \in DOMAIN dirs : dirs[r].state = "scanned" => ~dirs[r].has_failing

\* Faulty variant of RequiredBails: required-tier errors are only logged.
RequiredBails_Never(res) == FALSE

\* The `bail!` of the required loop when result.errors is not empty.
RequiredBails(res) == res.errors # <<>>

\* Where a for loop over GREENBOOT_INSTALL_PATHS goes after the iteration on r.
LastRoot(r) == r = Len(GREENBOOT_INSTALL_PATHS)

\* Required phase, one iteration of `for path in GREENBOOT_INSTALL_PATHS` up to
\* the run_scripts call: a root without required.d is skipped with a warning.
DiagRequired ==
    /\ pc = "required"
    /\ \E is_dir \in BOOLEAN : \E raw \in ReadDir(is_dir) :
         LET valid == Valid(raw) IN
         \E st \in [1..Len(valid) -> Status] :
           IF ~is_dir
           THEN /\ required_dirs' = [required_dirs EXCEPT ![root] = AbsentDir]
                /\ pc' = IF LastRoot(root) THEN "path_check" ELSE "required"
                /\ root' = IF LastRoot(root) THEN root ELSE root + 1
                /\ UNCHANGED <<path_exists, result, scanned, found>>
           ELSE LET res == RunScripts("required", root, WithStatus(valid, st),
                                      SomeDisabled(skipped))
                IN /\ path_exists' = TRUE
                   /\ result' = res
                   /\ required_dirs' = [required_dirs EXCEPT ![root] = ScannedDir(res, skipped)]
                   /\ scanned' = scanned \cup {<<"required", root>>}
                   /\ found' = found \cup (PathsOf(valid) \cap skipped)
                   /\ pc' = "required_result"
                   /\ root' = root
    /\ UNCHANGED <<config, previous_rollback, skipped, all_skipped, errors, diag, ret,
                   calls, tier_errors,
                   required_ok, journal_report, mount_vars>>

\* Required phase, the rest of the iteration: all_skipped.extend(result.skipped),
\* then bail when result.errors is not empty.
DiagRequiredResult ==
    /\ pc = "required_result"
    /\ all_skipped' = all_skipped \cup Range(result.skipped)
    /\ IF RequiredBails(result)
       THEN /\ diag' = Err("required health-check failed, skipping remaining scripts")
            /\ pc' = "match_diagnostics"
            /\ tier_errors' = tier_errors \cup {"required"}
            /\ UNCHANGED <<root, result>>
       ELSE /\ pc' = IF LastRoot(root) THEN "path_check" ELSE "required"
            /\ root' = IF LastRoot(root) THEN root ELSE root + 1
            /\ result' = NoResult
            /\ UNCHANGED <<diag, tier_errors>>
    /\ UNCHANGED <<config, previous_rollback, skipped, path_exists, errors, ret, calls,
                   required_dirs, scanned, found,
                   required_ok, journal_report, mount_vars>>

\* Faulty variant of NoRequiredFolder: the check is dropped.
NoRequiredFolder_Never(exists) == FALSE

\* The test `!path_exists` after the required loop.
NoRequiredFolder(exists) == ~exists

\* `if !path_exists { bail!("cannot find any required.d folder") }`
DiagPathCheck ==
    /\ pc = "path_check"
    /\ IF NoRequiredFolder(path_exists)
       THEN /\ diag' = Err("cannot find any required.d folder")
            /\ pc' = "match_diagnostics"
       ELSE /\ diag' = diag
            /\ pc' = "wanted"
    /\ root' = 1
    /\ UNCHANGED <<config, previous_rollback, skipped, path_exists, all_skipped, result,
                   errors, ret, calls, required_dirs, scanned, found, tier_errors,
                   required_ok, journal_report, mount_vars>>

\* Wanted phase, one iteration up to the run_scripts call.
DiagWanted ==
    /\ pc = "wanted"
    /\ \E is_dir \in BOOLEAN : \E raw \in ReadDir(is_dir) :
         LET valid == Valid(raw) IN
         \E st \in [1..Len(valid) -> Status] :
           /\ result' = RunScripts("wanted", root, WithStatus(valid, st),
                                   SomeDisabled(skipped))
           /\ found' = found \cup (PathsOf(valid) \cap skipped)
    /\ scanned' = scanned \cup {<<"wanted", root>>}
    /\ pc' = "wanted_result"
    /\ UNCHANGED <<root, config, previous_rollback, skipped, path_exists, all_skipped,
                   errors, diag, ret, calls, required_dirs, tier_errors,
                   required_ok, journal_report, mount_vars>>

\* Faulty variant of DiagWantedResult: wanted-tier errors fail diagnostics.
DiagWantedResult_Fatal ==
    /\ pc = "wanted_result"
    /\ all_skipped' = all_skipped \cup Range(result.skipped)
    /\ IF result.errors # <<>>
       THEN /\ diag' = Err("wanted health-check failed")
            /\ pc' = "match_diagnostics"
            /\ tier_errors' = tier_errors \cup {"wanted"}
            /\ UNCHANGED <<root, result>>
       ELSE /\ pc' = IF root = Len(GREENBOOT_INSTALL_PATHS) THEN "diag_finish" ELSE "wanted"
            /\ root' = IF root = Len(GREENBOOT_INSTALL_PATHS) THEN root ELSE root + 1
            /\ result' = NoResult
            /\ UNCHANGED <<diag, tier_errors>>
    /\ UNCHANGED <<config, previous_rollback, skipped, path_exists, errors, ret, calls,
                   required_dirs, scanned, found, required_ok, journal_report, mount_vars>>

\* Wanted phase, the rest of the iteration: all_skipped.extend(result.skipped);
\* errors are logged only.
DiagWantedResult ==
    /\ pc = "wanted_result"
    /\ all_skipped' = all_skipped \cup Range(result.skipped)
    /\ tier_errors' = IF result.errors # <<>>
                      THEN tier_errors \cup {"wanted"} ELSE tier_errors
    /\ pc' = IF LastRoot(root) THEN "diag_finish" ELSE "wanted"
    /\ root' = IF LastRoot(root) THEN root ELSE root + 1
    /\ result' = NoResult
    /\ UNCHANGED <<config, previous_rollback, skipped, path_exists, errors, diag, ret,
                   calls, required_dirs, scanned, found,
                   required_ok, journal_report, mount_vars>>

\* Faulty variant of MissingDisabled: the difference is not taken.
MissingDisabled_All(disabled_scripts, skipped_names) == disabled_scripts

\* disabled_scripts.difference(&all_skipped)
MissingDisabled(disabled_scripts, skipped_names) == disabled_scripts \ skipped_names

\* The end of run_diagnostics: Ok(missing_disabled).
DiagFinish ==
    /\ pc = "diag_finish"
    /\ diag' = Ok(MissingDisabled(skipped, all_skipped))
    /\ pc' = "match_diagnostics"
    /\ UNCHANGED <<root, config, previous_rollback, skipped, path_exists, all_skipped,
                   result, errors, ret, calls, required_dirs, scanned, found, tier_errors,
                   required_ok, journal_report, mount_vars>>

\* health_check: `match run_diagnostics()`; the frame of run_diagnostics is gone.
MatchDiagnostics ==
    /\ pc = "match_diagnostics"
    /\ pc' = IF diag.state = "ok" THEN "green" ELSE "motd_red"
    /\ root' = 1
    /\ path_exists' = FALSE
    /\ all_skipped' = {}
    /\ result' = NoResult
    /\ required_dirs' = [r \in Roots |-> Unscanned]
    /\ found' = {}
    /\ required_ok' = RequiredVerdict(required_dirs)
    /\ UNCHANGED <<config, previous_rollback, skipped, errors, diag, ret, calls,
                   scanned, tier_errors, journal_report,
                   mount_vars>>

\* ------------------------------------------------- run_green / run_red

\* Faulty variant of HookCall: the hooks are run with the skip list of the
\* diagnostics.
HookCall_SkipList(name, after) ==
    /\ \E is_dir \in BOOLEAN : \E raw \in ReadDir(is_dir) :
         LET valid == Valid(raw) IN
         \E st \in [1..Len(valid) -> Status] :
           result' = RunScripts(name, root, WithStatus(valid, st), SomeDisabled(skipped))
    /\ scanned' = scanned \cup {<<name, root>>}
    /\ pc' = after
    /\ UNCHANGED <<root, config, previous_rollback, skipped, path_exists, all_skipped,
                   errors, diag, ret, calls, required_dirs, found, tier_errors,
                   required_ok, journal_report, mount_vars>>

\* One iteration of the loop of run_green / run_red up to the call
\* run_scripts(name, path, None).
HookCall(name, after) ==
    /\ \E is_dir \in BOOLEAN : \E raw \in ReadDir(is_dir) :
         LET valid == Valid(raw) IN
         \E st \in [1..Len(valid) -> Status] :
           result' = RunScripts(name, root, WithStatus(valid, st), NoneDisabled)
    /\ scanned' = scanned \cup {<<name, root>>}
    /\ pc' = after
    /\ UNCHANGED <<root, config, previous_rollback, skipped, path_exists, all_skipped,
                   errors, diag, ret, calls, required_dirs, found, tier_errors,
                   required_ok, journal_report, mount_vars>>

\* Faulty variant of HookExtend: a directory whose hooks failed is run again.
HookExtend_Retries(name, again, after) ==
    /\ errors' = IF LastRoot(root) THEN <<>> ELSE errors \o result.errors
    /\ tier_errors' = IF result.errors # <<>>
                      THEN tier_errors \cup {name} ELSE tier_errors
    /\ pc' = IF LastRoot(root) /\ result.errors = <<>> THEN after ELSE again
    /\ root' = IF LastRoot(root) \/ result.errors # <<>> THEN root ELSE root + 1
    /\ result' = NoResult
    /\ UNCHANGED <<config, previous_rollback, skipped, path_exists, all_skipped, diag,
                   ret, calls, required_dirs, scanned, found,
                   required_ok, journal_report, mount_vars>>

\* The rest of the iteration: errors.extend(result.errors). After the last
\* root the errors are returned to health_check, which logs and drops them.
HookExtend(name, again, after) ==
    /\ errors' = IF LastRoot(root) THEN <<>> ELSE errors \o result.errors
    /\ tier_errors' = IF result.errors # <<>>
                      THEN tier_errors \cup {name} ELSE tier_errors
    /\ pc' = IF LastRoot(root) THEN after ELSE again
    /\ root' = IF LastRoot(root) THEN root ELSE root + 1
    /\ result' = NoResult
    /\ UNCHANGED <<config, previous_rollback, skipped, path_exists, all_skipped, diag,
                   ret, calls, required_dirs, scanned, found,
                   required_ok, journal_report, mount_vars>>

\* run_green(), called in the Ok arm of health_check.
RunGreen ==
    /\ pc = "green"
    /\ HookCall("green", "green_result")

\* Faulty variant of RunGreenResult: after the green hooks the flow falls
\* through into the Err arm.
RunGreenResult_FallsThrough ==
    /\ pc = "green_result"
    /\ HookExtend("green", "green", "motd_red")

RunGreenResult ==
    /\ pc = "green_result"
    /\ HookExtend("green", "green", "motd_green")

\* run_red(), called in the Err arm of health_check.
RunRed ==
    /\ pc = "red"
    /\ HookCall("red", "red_result")

RunRedResult ==
    /\ pc = "red_result"
    /\ HookExtend("red", "red", "set_boot_status_red")

\* --------------------------------------------- health_check, Ok arm

\* Faulty variant of MotdGreen: a publish failure is propagated with `?`.
MotdGreen_Propagates ==
    /\ pc = "motd_green"
    /\ \E ok \in BOOLEAN :
         /\ calls' = Append(calls, Call("handle_motd",
                       generate_motd_message("Greenboot healthcheck passed - status is GREEN",
                                             previous_rollback), ok))
         /\ pc' = IF ok THEN "set_boot_status_green" ELSE "done"
         /\ ret' = IF ok THEN ret ELSE Err("handle_motd")
    /\ UNCHANGED <<root, config, previous_rollback, skipped, path_exists, all_skipped,
                   result, errors, diag, required_dirs, scanned, found, tier_errors,
                   required_ok, journal_report, mount_vars>>

\* handle_motd(GREEN).unwrap_or_else(log)
MotdGreen ==
    /\ pc = "motd_green"
    /\ \E ok \in BOOLEAN :
         calls' = Append(calls, Call("handle_motd",
                    generate_motd_message("Greenboot healthcheck passed - status is GREEN",
                                          previous_rollback), ok))
    /\ pc' = "set_boot_status_green"
    /\ UNCHANGED <<root, config, previous_rollback, skipped, path_exists, all_skipped,
                   result, errors, diag, ret, required_dirs, scanned, found, tier_errors,
                   required_ok, journal_report, mount_vars>>

\* set_boot_status(true, ..)?; Ok(())
SetBootStatusGreen ==
    /\ pc = "set_boot_status_green"
    /\ \E ok \in BOOLEAN :
         /\ calls' = Append(calls, Call("set_boot_status", TRUE, ok))
         /\ ret' = IF ok THEN Ok("unit") ELSE Err("set_boot_status")
    /\ pc' = "done"
    /\ UNCHANGED <<root, config, previous_rollback, skipped, path_exists, all_skipped,
                   result, errors, diag, required_dirs, scanned, found, tier_errors,
                   required_ok, journal_report, mount_vars>>

\* --------------------------------------------- health_check, Err arm

\* handle_motd(RED).unwrap_or_else(log)
MotdRed ==
    /\ pc = "motd_red"
    /\ \E ok \in BOOLEAN :
         calls' = Append(calls, Call("handle_motd",
                    generate_motd_message("Greenboot healthcheck failed - status is RED",
                                          previous_rollback), ok))
    /\ pc' = "red"
    /\ UNCHANGED <<root, config, previous_rollback, skipped, path_exists, all_skipped,
                   result, errors, diag, ret, required_dirs, scanned, found, tier_errors,
                   required_ok, journal_report, mount_vars>>

\* Faulty variant of SetBootStatusRed: the boot counter is persisted first.
SetBootStatusRed_CounterFirst ==
    /\ pc = "set_boot_status_red"
    /\ \E ok1, ok2 \in BOOLEAN :
         calls' = calls \o <<Call("set_boot_counter", config, ok1),
                             Call("set_boot_status", FALSE, ok2)>>
    /\ pc' = "handle_reboot"
    /\ UNCHANGED <<root, config, previous_rollback, skipped, path_exists, all_skipped,
                   result, errors, diag, ret, required_dirs, scanned, found, tier_errors,
                   required_ok, journal_report, mount_vars>>

\* Faulty variant of SetBootStatusRed: the error is propagated with `?`.
SetBootStatusRed_Propagates ==
    /\ pc = "set_boot_status_red"
    /\ \E ok \in BOOLEAN :
         /\ calls' = Append(calls, Call("set_boot_status", FALSE, ok))
         /\ pc' = IF ok THEN "set_boot_counter" ELSE "done"
         /\ ret' = IF ok THEN ret ELSE Err("set_boot_status")
    /\ UNCHANGED <<root, config, previous_rollback, skipped, path_exists, all_skipped,
                   result, errors, diag, required_dirs, scanned, found, tier_errors,
                   required_ok, journal_report, mount_vars>>

\* set_boot_status(false, ..).unwrap_or_else(log)
SetBootStatusRed ==
    /\ pc = "set_boot_status_red"
    /\ \E ok \in BOOLEAN : calls' = Append(calls, Call("set_boot_status", FALSE, ok))
    /\ pc' = "set_boot_counter"
    /\ UNCHANGED <<root, config, previous_rollback, skipped, path_exists, all_skipped,
                   result, errors, diag, ret, required_dirs, scanned, found, tier_errors,
                   required_ok, journal_report, mount_vars>>

\* set_boot_counter(config.max_reboot, ..).unwrap_or_else(log)
SetBootCounter ==
    /\ pc = "set_boot_counter"
    /\ \E ok \in BOOLEAN : calls' = Append(calls, Call("set_boot_counter", config, ok))
    /\ pc' = "handle_reboot"
    /\ UNCHANGED <<root, config, previous_rollback, skipped, path_exists, all_skipped,
                   result, errors, diag, ret, required_dirs, scanned, found, tier_errors,
                   required_ok, journal_report, mount_vars>>

\* What the Err arm of health_check returns after the remediation steps.
RedVerdict == Err("greenboot healthcheck failed")

\* Faulty variant of HandleReboot: the reboot error replaces the verdict.
HandleReboot_Propagates ==
    /\ pc = "handle_reboot"
    /\ \E ok \in BOOLEAN :
         /\ calls' = Append(calls, Call("handle_reboot", FALSE, ok))
         /\ ret' = IF ok THEN RedVerdict ELSE Err("handle_reboot")
    /\ pc' = "done"
    /\ UNCHANGED <<root, config, previous_rollback, skipped, path_exists, all_skipped,
                   result, errors, diag, required_dirs, scanned, found, tier_errors,
                   required_ok, journal_report, mount_vars>>

\* handle_reboot(false).unwrap_or_else(log); bail!("greenboot healthcheck failed")
HandleReboot ==
    /\ pc = "handle_reboot"
    /\ \E ok \in BOOLEAN : calls' = Append(calls, Call("handle_reboot", FALSE, ok))
    /\ ret' = RedVerdict
    /\ pc' = "done"
    /\ UNCHANGED <<root, config, previous_rollback, skipped, path_exists, all_skipped,
                   result, errors, diag, required_dirs, scanned, found, tier_errors,
                   required_ok, journal_report, mount_vars>>

\* ------------------------------------------------------ trigger_rollback

\* The failure details a collaborator of the rollback flow may report.
CollaboratorErrors == {"permission denied", "no rollback deployment"}

\* What a collaborator returns: Ok(()) or Err(detail).
Outcomes == {[ok |-> TRUE, detail |-> ""]} \cup
            {[ok |-> FALSE, detail |-> d] : d \in CollaboratorErrors}

\* A collaborator call of the rollback flow, with the detail of its failure.
CallOutcome(op, arg, out) == [op |-> op, arg |-> arg, ok |-> out.ok, detail |-> out.detail]

\* Faulty variant of RollbackMessage: the collaborator's detail is dropped.
RollbackMessage_NoDetail(e) == "Rollback is not initiated"

\* bail!("{e}, Rollback is not initiated")
RollbackMessage(e) == e \o ", Rollback is not initiated"

\* trigger_rollback: `match handle_rollback()`; the Err arm bails at once.
HandleRollback ==
    /\ pc = "handle_rollback"
    /\ \E out \in Outcomes :
         /\ calls' = Append(calls, CallOutcome("handle_rollback", "unit", out))
         /\ IF out.ok
            THEN /\ pc' = "unset_boot_counter"
                 /\ ret' = ret
            ELSE /\ pc' = "done"
                 /\ ret' = Err(RollbackMessage(out.detail))
    /\ UNCHANGED <<root, config, previous_rollback, skipped, path_exists, all_skipped,
                   result, errors, diag, required_dirs, scanned, found, tier_errors,
                   required_ok, journal_report, mount_vars>>

\* Faulty variant of UnsetBootCounter: the error is logged and the flow goes on.
UnsetBootCounter_Swallows ==
    /\ pc = "unset_boot_counter"
    /\ \E out \in Outcomes :
         calls' = Append(calls, CallOutcome("unset_boot_counter", "unit", out))
    /\ pc' = "reboot_immediate"
    /\ UNCHANGED <<root, config, previous_rollback, skipped, path_exists, all_skipped,
                   result, errors, diag, ret, required_dirs, scanned, found, tier_errors,
                   required_ok, journal_report, mount_vars>>

\* Ok arm: unset_boot_counter(..)?  -- an error is returned at once.
UnsetBootCounter ==
    /\ pc = "unset_boot_counter"
    /\ \E out \in Outcomes :
         /\ calls' = Append(calls, CallOutcome("unset_boot_counter", "unit", out))
         /\ IF out.ok
            THEN /\ pc' = "reboot_immediate"
                 /\ ret' = ret
            ELSE /\ pc' = "done"
                 /\ ret' = Err(out.detail)
    /\ UNCHANGED <<root, config, previous_rollback, skipped, path_exists, all_skipped,
                   result, errors, diag, required_dirs, scanned, found, tier_errors,
                   required_ok, journal_report, mount_vars>>

\* Ok arm: handle_reboot(true), whose result is the result of trigger_rollback.
RebootImmediate ==
    /\ pc = "reboot_immediate"
    /\ \E out \in Outcomes :
         /\ calls' = Append(calls, CallOutcome("handle_reboot", TRUE, out))
         /\ ret' = IF out.ok THEN Ok("unit") ELSE Err(out.detail)
    /\ pc' = "done"
    /\ UNCHANGED <<root, config, previous_rollback, skipped, path_exists, all_skipped,
                   result, errors, diag, required_dirs, scanned, found, tier_errors,
                   required_ok, journal_report, mount_vars>>

\* ------------------------------------------------------ specification

Next ==
    \/ GetConfig
    \/ CheckPreviousRollback
    \/ MotdInProgress
    \/ DiagRequired
    \/ DiagRequiredResult
    \/ DiagPathCheck
    \/ DiagWanted
    \/ DiagWantedResult
    \/ DiagFinish
    \/ MatchDiagnostics
    \/ RunGreen
    \/ RunGreenResult
    \/ MotdGreen
    \/ SetBootStatusGreen
    \/ MotdRed
    \/ RunRed
    \/ RunRedResult
    \/ SetBootStatusRed
    \/ SetBootCounter
    \/ HandleReboot
    \/ HandleRollback
    \/ UnsetBootCounter
    \/ RebootImmediate

Spec == Init /\ [][Next]_vars

\* A run in which every child process (health-check artifact, hook,
\* journalctl) and every collaborator call returns: each step of main is a
\* blocking call in one thread, so the step that is enabled is taken.
\* health_check calls run_diagnostics() without a skip list (main.rs:186).
LiveInit == Init /\ skipped = {}

LiveSpec == LiveInit /\ [][Next]_vars /\ WF_vars(Next)

\* ------------------------------------------------- handler/mount.rs

\* The most calls of remount_boot_ro / remount_boot_rw one process makes.
MaxCalls == 3

\* Strings the code searches are sequences of characters.
BootPoint == <<"/", "b", "o", "o", "t">>
EfiPoint == BootPoint \o <<"/", "e", "f", "i">>
RootPoint == <<"/">>
Device == <<"s", "d", "a">>
FsType == <<"e", "x", "t", "4">>
Rw == <<"r", "w">>
Ro == <<"r", "o">>
Relatime == <<",", "r", "e", "l", "a", "t", "i", "m", "e">>
ErrorsRemountRo ==
    <<",", "e", "r", "r", "o", "r", "s", "=", "r", "e", "m", "o", "u", "n", "t", "-", "r", "o">>

\* One line of /proc/mounts: device, mount point, type, options, dump, pass.
MountLine(point, options) ==
    Device \o <<" ">> \o point \o <<" ">> \o FsType \o <<" ">> \o options \o <<" ", "0", " ", "0">>

\* A line cut short after the mount point, its two fields separated by a tab.
ShortLine(point) == Device \o <<"\t">> \o point

\* The mount tables a process may find: /boot read-write, read-only, with
\* errors=remount-ro, absent (/boot/efi alone), twice, cut short, or no line at all.
MountTables ==
    { <<MountLine(RootPoint, Rw \o Relatime), MountLine(BootPoint, Rw \o Relatime)>>,
      <<MountLine(RootPoint, Rw \o Relatime), MountLine(BootPoint, Ro \o Relatime)>>,
      <<MountLine(BootPoint, Rw \o ErrorsRemountRo)>>,
      <<MountLine(BootPoint, Ro \o ErrorsRemountRo)>>,
      <<MountLine(RootPoint, Rw \o Relatime), MountLine(EfiPoint, Rw \o Relatime)>>,
      <<MountLine(BootPoint, Ro \o Relatime), MountLine(BootPoint, Rw \o Relatime)>>,
      <<MountLine(BootPoint, Rw \o Relatime), MountLine(BootPoint, Ro \o Relatime)>>,
      <<<<>>, ShortLine(BootPoint)>>,
      <<>> }

\* char::is_whitespace on the characters a mount table holds.
IsWhitespace(c) == c \in {" ", "\t"}

\* line.split_whitespace().collect(): the fields of the line from character i
\* on, cur being the field under way.
RECURSIVE SplitFrom(_, _, _)
SplitFrom(line, i, cur) ==
    IF i > Len(line)
    THEN (IF cur = <<>> THEN <<>> ELSE <<cur>>)
    ELSE IF IsWhitespace(line[i])
         THEN (IF cur = <<>> THEN <<>> ELSE <<cur>>) \o SplitFrom(line, i + 1, <<>>)
         ELSE SplitFrom(line, i + 1, Append(cur, line[i]))

split_whitespace(line) == SplitFrom(line, 1, <<>>)

\* str::contains
Contains(s, sub) ==
    \E i \in 0..(Len(s) - Len(sub)) : SubSeq(s, i + 1, i + Len(sub)) = sub

\* Faulty variant of OptionsAreRw: the first option alone is looked at.
OptionsAreRw_FirstOption(options) == Len(options) >= 2 /\ SubSeq(options, 1, 2) = Rw

\* options.contains("rw") && !options.contains("ro")
OptionsAreRw(options) == Contains(options, Rw) /\ ~ Contains(options, Ro)

MountInfoError == [ok |-> FALSE, error |-> "MountInfoError"]
RemountFailed(detail) == [ok |-> FALSE, error |-> "RemountFailed", detail |-> detail]
MountOk == [ok |-> TRUE]
IsRw(value) == [ok |-> TRUE, rw |-> value]

\* The for loop of is_boot_rw from line i on: the first line whose second
\* field is "/boot" decides; a missing options field reads as "".
RECURSIVE ScanMounts(_, _)
ScanMounts(lines, i) ==
    IF i > Len(lines) THEN MountInfoError
    ELSE LET parts == split_whitespace(lines[i]) IN
         IF Len(parts) >= 2 /\ parts[2] = BootPoint
         THEN IsRw(OptionsAreRw(IF Len(parts) >= 4 THEN parts[4] ELSE <<>>))
         ELSE ScanMounts(lines, i + 1)

\* Faulty variant of is_boot_rw: an unknown state is taken for read-only.
is_boot_rw_AssumesRo(readable, lines) ==
    IF ~ readable THEN IsRw(FALSE)
    ELSE IF ScanMounts(lines, 1).ok THEN ScanMounts(lines, 1) ELSE IsRw(FALSE)

\* is_boot_rw(): read_to_string("/proc/mounts") may fail.
is_boot_rw(readable, lines) ==
    IF ~ readable THEN MountInfoError ELSE ScanMounts(lines, 1)

\* The flags of the two mount(2) calls.
RemountRoFlags == {"MS_REMOUNT", "MS_RDONLY"}
RemountRwFlags == {"MS_REMOUNT", "MS_BIND"}

\* How mount(2) may end: Ok, or Err(errno).
SyscallOutcomes == {[ok |-> TRUE, detail |-> ""],
                    [ok |-> FALSE, detail |-> "EPERM"],
                    [ok |-> FALSE, detail |-> "EBUSY"]}

\* The line of a mount whose access mode the kernel has changed.
WithAccess(line, flags) ==
    LET parts == split_whitespace(line)
        mode == IF "MS_RDONLY" \in flags THEN Ro ELSE Rw
    IN IF Len(parts) >= 4
       THEN MountLine(parts[2], mode \o SubSeq(parts[4], 3, Len(parts[4])))
       ELSE line

\* The mount table after a successful remount of /boot: the kernel changes the
\* mount on top of the mount point, which the table lists last.
Remounted(lines, flags) ==
    LET at == {i \in 1..Len(lines) :
                  LET parts == split_whitespace(lines[i])
                  IN Len(parts) >= 2 /\ parts[2] = BootPoint}
    IN IF at = {} THEN lines
       ELSE LET top == CHOOSE i \in at : \A j \in at : j <= i
            IN [lines EXCEPT ![top] = WithAccess(lines[top], flags)]

\* Faulty variant of FlagAfterRw: a remount to read-write clears the flag.
FlagAfterRw_Cleared == FALSE

\* BOOT_WAS_RO.store(true, ..) in remount_boot_ro and in remount_boot_rw.
FlagAfterRo == TRUE
FlagAfterRw == TRUE

\* One call, as remembered in mount_log.
MountCall(op, readable, lines, state, issued, flags, out, returned, flag) ==
    [op |-> op, readable |-> readable, table |-> lines, state |-> state,
     issued |-> issued, flags |-> flags, syscall_ok |-> out, ret |-> returned, flag |-> flag]

\* The body shared by remount_boot_ro and remount_boot_rw: `is_boot_rw()?`,
\* then the mount call when the state is `from`, else Ok(()).
Remount(op, from, flags, stored) ==
    /\ \E readable \in BOOLEAN :
         LET state == is_boot_rw(readable, mounts) IN
         IF ~ state.ok
         THEN /\ mount_log' = Append(mount_log,
                    MountCall(op, readable, mounts, state, FALSE, {}, FALSE, state,
                              BOOT_WAS_RO))
              /\ UNCHANGED <<BOOT_WAS_RO, mounts>>
         ELSE IF state.rw # from
         THEN /\ mount_log' = Append(mount_log,
                    MountCall(op, readable, mounts, state, FALSE, {}, FALSE, MountOk,
                              BOOT_WAS_RO))
              /\ UNCHANGED <<BOOT_WAS_RO, mounts>>
         ELSE \E out \in SyscallOutcomes :
                IF out.ok
                THEN /\ mounts' = Remounted(mounts, flags)
                     /\ BOOT_WAS_RO' = stored
                     /\ mount_log' = Append(mount_log,
                           MountCall(op, readable, mounts, state, TRUE, flags, TRUE,
                                     MountOk, stored))
                ELSE /\ mount_log' = Append(mount_log,
                           MountCall(op, readable, mounts, state, TRUE, flags, FALSE,
                                     RemountFailed(out.detail), BOOT_WAS_RO))
                     /\ UNCHANGED <<BOOT_WAS_RO, mounts>>
    /\ UNCHANGED flow_vars

\* pub fn remount_boot_ro()
remount_boot_ro ==
    /\ Len(mount_log) < MaxCalls
    /\ Remount("remount_boot_ro", TRUE, RemountRoFlags, FlagAfterRo)

\* pub fn remount_boot_rw()
remount_boot_rw ==
    /\ Len(mount_log) < MaxCalls
    /\ Remount("remount_boot_rw", FALSE, RemountRwFlags, FlagAfterRw)

\* A process that has done nothing yet but is about to use the mount guard.
MountInit ==
    /\ pc = "mount"
    /\ root = 1
    /\ config = DefaultMaxReboot
    /\ previous_rollback = FALSE
    /\ skipped = {}
    /\ path_exists = FALSE
    /\ all_skipped = {}
    /\ result = NoResult
    /\ errors = <<>>
    /\ diag = NotReturned
    /\ ret = NotReturned
    /\ calls = <<>>
    /\ required_dirs = [r \in Roots |-> Unscanned]
    /\ scanned = {}
    /\ found = {}
    /\ tier_errors = {}
    /\ required_ok = FALSE
    /\ journal_report = NotQueried
    /\ BOOT_WAS_RO = FALSE
    /\ mounts \in MountTables
    /\ mount_log = <<>>

MountNext ==
    \/ remount_boot_ro
    \/ remount_boot_rw

MountSpec == MountInit /\ [][MountNext]_vars

\* ------------------------------------------------------------- claims

\* Whether the run behind res executed the entry named path.
WasExecuted(res, path) == \E k \in 1..Len(res.executed) : res.executed[k].path = path

\* Whether entry i of the directory behind res does not succeed when run.
Fails(res, i) == res.entries[i].status # "success"

\* Entries i < j of the directory behind res that both fail and are not in the skip list.
FailingPair(res, i, j) ==
    /\ i < j
    /\ Fails(res, i) /\ res.entries[i].path \notin skipped
    /\ Fails(res, j) /\ res.entries[j].path \notin skipped

\* The entries of the directory behind res that were executed and failed.
ExecutedFailures(res) ==
    {i \in 1..Len(res.entries) : Fails(res, i) /\ WasExecuted(res, res.entries[i].path)}

RequiredMsg == "required health-check failed, skipping remaining scripts"
MissingMsg == "cannot find any required.d folder"

\* C1 as stated: of any two required-tier scripts of one directory that both
\* fail and are not skipped, exactly one is executed, and diagnostics fails.
C1_ExactlyOneOfTheTwo ==
    result.name = "required" =>
        \A i, j \in 1..Len(result.entries) :
            FailingPair(result, i, j) =>
                /\ result.errors # <<>>
                /\ (pc = "match_diagnostics" => diag = Err(RequiredMsg))
                /\ WasExecuted(result, result.entries[i].path)
                     # WasExecuted(result, result.entries[j].path)

\* C1, amended: in a required-tier run no entry is executed after a failing
\* one; when two scripts of the directory both fail and are not skipped,
\* diagnostics fails with the required-tier message, exactly one failing entry
\* of the directory is executed (the first one outside the skip list), and at
\* most one of the two.
C1_RequiredFailFast ==
    result.name = "required" =>
        /\ \A k \in 1..Len(result.executed) : \A i \in 1..Len(result.entries) :
              (result.entries[i].path = result.executed[k].path /\ Fails(result, i))
                  => k = Len(result.executed)
        /\ Len(result.errors) <= 1
        /\ \A i, j \in 1..Len(result.entries) :
              FailingPair(result, i, j) =>
                  /\ result.errors # <<>>
                  /\ (pc = "match_diagnostics" => diag = Err(RequiredMsg))
                  /\ Cardinality(ExecutedFailures(result)) = 1
                  /\ ~ WasExecuted(result, result.entries[j].path)
                  /\ (WasExecuted(result, result.entries[i].path) <=>
                        \A h \in 1..(i - 1) :
                            Fails(result, h) => result.entries[h].path \in skipped)

\* C1 witness: diagnostics has failed on a required.d directory that holds two
\* failing scripts outside the skip list, after running a passing one and the
\* first of the two.
C1_Witness ==
    /\ pc = "match_diagnostics"
    /\ diag = Err(RequiredMsg)
    /\ result.name = "required"
    /\ Len(result.entries) = 3
    /\ ~ Fails(result, 1)
    /\ FailingPair(result, 2, 3)
    /\ Len(result.executed) = 2

\* C2: once the required-tier run of a root has returned errors, diagnostics
\* fails with the required-tier message without calling run_scripts on the
\* other required root or on any wanted.d; a wanted-tier run happens only
\* when every required.d directory met finished without error.
C2_RequiredErrorsAbort ==
    /\ \A r \in Roots :
          (required_dirs[r].state = "scanned" /\ required_dirs[r].has_errors) =>
              \/ pc = "required_result" /\ root = r
              \/ /\ pc = "match_diagnostics"
                 /\ diag = Err(RequiredMsg)
                 /\ \A q \in Roots : q > r => required_dirs[q] = Unscanned
                 /\ \A q \in Roots : q > r => <<"required", q>> \notin scanned
                 /\ \A q \in Roots : <<"wanted", q>> \notin scanned
    /\ (diag.state = "err" => \A q \in Roots : <<"wanted", q>> \notin scanned)
    /\ result.name = "wanted" =>
          /\ \A r \in Roots : required_dirs[r].state \in {"absent", "scanned"}
          /\ \A r \in Roots : required_dirs[r].state = "scanned" =>
                ~ required_dirs[r].has_errors /\ ~ required_dirs[r].exec_failed
          /\ diag = NotReturned

\* C2 witness: the first root's required run failed after executing something,
\* and diagnostics returned the error.
C2_Witness ==
    /\ pc = "match_diagnostics"
    /\ diag = Err(RequiredMsg)
    /\ result.root = 1
    /\ required_dirs[1].state = "scanned" /\ required_dirs[1].has_errors
    /\ result.executed # <<>>

\* C3 as stated: no artifact named in the skip list is executed in the
\* required or wanted tier, and every such artifact of the directory is
\* recorded as skipped.
C3_EverySkipRecorded ==
    result.name \in {"required", "wanted"} =>
        \A i \in 1..Len(result.entries) :
            result.entries[i].path \in skipped =>
                /\ ~ WasExecuted(result, result.entries[i].path)
                /\ result.entries[i].path \in Range(result.skipped)

\* Whether the loop of the run behind res got as far as entry i: no failure
\* record ended a required-tier run before it.
Reached(res, i) ==
    res.name = "required" =>
        \A h \in 1..(i - 1) : Fails(res, h) => res.entries[h].path \in skipped

\* C3, amended: no artifact named in the skip list is executed in the required
\* or wanted tier of either root; each such artifact the enumeration reaches
\* (one not behind a failed required-tier entry) is recorded as skipped, and
\* only such artifacts are.
C3_SkippedNeverExecuted ==
    result.name \in {"required", "wanted"} =>
        /\ \A k \in 1..Len(result.executed) : result.executed[k].path \notin skipped
        /\ \A i \in 1..Len(result.entries) :
              (result.entries[i].path \in skipped /\ Reached(result, i)) =>
                  result.entries[i].path \in Range(result.skipped)
        /\ Range(result.skipped) \subseteq (skipped \cap PathsOf(result.entries))
        /\ (pc \in {"required", "wanted", "path_check", "diag_finish", "match_diagnostics"}
              => all_skipped \subseteq skipped)

\* C3 witness: a wanted-tier run of the second root that skipped a failing
\* artifact and executed another.
C3_Witness ==
    /\ result.name = "wanted"
    /\ result.root = 2
    /\ result.executed # <<>>
    /\ \E i \in 1..Len(result.entries) :
          /\ Fails(result, i)
          /\ result.entries[i].path \in Range(result.skipped)

\* C4: when run_diagnostics succeeds, the missing list is the skip list minus
\* the names skipped in some required.d or wanted.d: it holds every name of
\* the skip list that no valid entry of those directories bears, and no name
\* that was skipped.
C4_MissingList ==
    (pc = "match_diagnostics" /\ diag.state = "ok") =>
        /\ diag.value = skipped \ found
        /\ all_skipped = found
        /\ diag.value \cap all_skipped = {}
        /\ diag.value \cup all_skipped = skipped

\* C4 witness: diagnostics succeeded with one name of the skip list skipped on
\* disk and another reported missing.
C4_Witness ==
    /\ pc = "match_diagnostics"
    /\ diag.state = "ok"
    /\ diag.value # {}
    /\ all_skipped # {}

\* Whether some required.d directory was met, and the roots that had one.
ScannedRoots == {r \in Roots : required_dirs[r].state = "scanned"}

\* C5: run_diagnostics succeeds exactly when some root has a required.d and no
\* executed required-tier artifact failed; a root whose failing required
\* artifacts are all in the skip list passes, with an empty missing list when
\* every name of the skip list is on disk, and with the empty skip list a
\* failing required artifact fails diagnostics.
C5_SuccessIff ==
    pc = "match_diagnostics" =>
        /\ diag.state = "ok" <=>
              (ScannedRoots # {} /\ \A r \in ScannedRoots : ~ required_dirs[r].exec_failed)
        /\ (ScannedRoots # {} /\ \A r \in ScannedRoots : ~ required_dirs[r].has_failing)
              => diag.state = "ok"
        /\ (diag.state = "ok" /\ skipped \subseteq found) => diag.value = {}
        /\ (skipped = {} /\ \E r \in ScannedRoots : required_dirs[r].has_failing)
              => diag.state = "err"

\* C5 witness: diagnostics succeeded although a required.d held failing
\* artifacts, the two names of the skip list, and the missing list is empty.
C5_Witness ==
    /\ pc = "match_diagnostics"
    /\ diag.state = "ok"
    /\ diag.value = {}
    /\ Cardinality(skipped) = 2
    /\ \E r \in ScannedRoots : required_dirs[r].skipped_failing

\* The directories of the two health-check tiers.
CheckDirs == {"required", "wanted"} \X Roots

\* C6: run_diagnostics fails with "cannot find any required.d folder" exactly
\* when neither root has a required.d, and then nothing of required.d or
\* wanted.d is ever run; a root without the directory is passed over and the
\* other root's required tier is still run.
C6_NoRequiredFolder ==
    /\ pc = "match_diagnostics" =>
          /\ diag = Err(MissingMsg) <=> \A r \in Roots : required_dirs[r].state = "absent"
          /\ required_dirs[1].state = "absent" =>
                /\ required_dirs[2].state \in {"absent", "scanned"}
                /\ required_dirs[2].state = "scanned" => <<"required", 2>> \in scanned
          /\ (required_dirs[1].state = "scanned" /\ ~ required_dirs[1].has_errors
                /\ required_dirs[2].state = "absent") => diag.state = "ok"
    /\ (diag.state = "err" /\ diag = Err(MissingMsg)) => scanned \cap CheckDirs = {}

\* C6 witness: neither root had a required.d and diagnostics returned the error.
C6_Witness ==
    /\ pc = "match_diagnostics"
    /\ diag = Err(MissingMsg)
    /\ \A r \in Roots : required_dirs[r].state = "absent"

\* C7: the verdict of run_diagnostics is decided by the required.d directories
\* and the skip list alone, and the result of health_check by that verdict and
\* the status collaborator alone: failures in wanted.d, red.d and green.d
\* change neither.
C7_VerdictFromRequiredOnly ==
    /\ pc = "match_diagnostics" => (diag.state = "ok" <=> RequiredVerdict(required_dirs))
    /\ (pc = "done" /\ diag.state # "running") =>
          (ret.state = "ok" <=>
              (required_ok /\ calls[Len(calls)] = Call("set_boot_status", TRUE, TRUE)))

\* C7 witness: health_check returned success although wanted-tier and
\* green-tier artifacts failed.
C7_Witness ==
    /\ pc = "done"
    /\ ret.state = "ok"
    /\ {"wanted", "green"} \subseteq tier_errors

\* The entries a run may execute: all of them without a skip list.
Runnable(res) ==
    LET Keep(e) == IF res.name \in {"red", "green"} THEN TRUE ELSE e.path \notin skipped
    IN SelectSeq(res.entries, Keep)

FailedOf(entries) ==
    LET Bad(e) == e.status # "success" IN SelectSeq(entries, Bad)

\* C8: a run of a tier other than required executes every valid entry outside
\* the skip list, in order, whatever failed before, and returns one failure
\* record per failing entry.
C8_OtherTiersRunAll ==
    result.name \in {"wanted", "red", "green"} =>
        /\ Len(result.executed) = Len(Runnable(result))
        /\ \A k \in 1..Len(result.executed) :
              result.executed[k].path = Runnable(result)[k].path
        /\ Len(result.errors) = Len(FailedOf(Runnable(result)))
        /\ \A k \in 1..Len(result.errors) :
              result.errors[k] = [name |-> result.name,
                                  path |-> FailedOf(Runnable(result))[k].path]

\* C8 witness: a red-tier run whose first entry failed and which went on to
\* run two more entries, the last one failing too.
C8_Witness ==
    /\ result.name = "red"
    /\ Len(result.entries) = 3
    /\ Fails(result, 1) /\ ~ Fails(result, 2) /\ Fails(result, 3)
    /\ Len(result.executed) = 3
    /\ Len(result.errors) = 2

\* The collaborator calls after the in-progress MOTD.
Made(op, arg) == \E i \in 2..Len(calls) : calls[i].op = op /\ calls[i].arg = arg
Failed(op) == \E i \in 2..Len(calls) : calls[i].op = op /\ ~ calls[i].ok
Succeeded(op) == \E i \in 2..Len(calls) : calls[i].op = op /\ calls[i].ok

RedMotd ==
    generate_motd_message("Greenboot healthcheck failed - status is RED", previous_rollback)

RemediationOps == {"handle_motd", "set_boot_status", "set_boot_counter", "handle_reboot"}

\* C9: once diagnostics has failed, the RED MOTD, the red hooks of both roots,
\* boot status = failure, the boot counter and the reboot request are all
\* attempted, whichever of them failed.
C9_AllRemediationAttempted ==
    (pc = "done" /\ diag.state = "err") =>
        /\ Made("handle_motd", RedMotd)
        /\ \A r \in Roots : <<"red", r>> \in scanned
        /\ Made("set_boot_status", FALSE)
        /\ Made("set_boot_counter", config)
        /\ Made("handle_reboot", FALSE)

\* C9 witness: the flow ended after every remediation collaborator failed and
\* a red hook failed.
C9_Witness ==
    /\ pc = "done"
    /\ diag.state = "err"
    /\ \A op \in RemediationOps : Failed(op) /\ ~ Succeeded(op)
    /\ "red" \in tier_errors

\* C10: after failed diagnostics health_check returns "greenboot healthcheck
\* failed" and nothing else, whatever the remediation steps returned.
C10_RedVerdict ==
    diag.state = "err" =>
        /\ ret = NotReturned \/ ret = RedVerdict
        /\ pc = "done" => ret = RedVerdict

\* C10 witness: the flow ended with the failure although every remediation
\* step succeeded.
C10_Witness ==
    /\ pc = "done"
    /\ diag.state = "err"
    /\ ret = RedVerdict
    /\ \A op \in RemediationOps : Succeeded(op) /\ ~ Failed(op)

\* The flow a run is in, read off its first collaborator call.
InRollback == calls # <<>> /\ calls[1].op = "handle_rollback"
InHealthCheck == calls # <<>> /\ calls[1].op = "handle_motd"

\* The positions in calls of the reboot requests.
Reboots == {i \in 1..Len(calls) : calls[i].op = "handle_reboot"}

GreenMotd ==
    generate_motd_message("Greenboot healthcheck passed - status is GREEN", previous_rollback)

\* C11 as stated: whenever diagnostics succeed, the flow runs the green hooks,
\* publishes the GREEN MOTD, persists boot status = success and terminates
\* with success.
C11_GreenAlwaysSucceeds ==
    (pc = "done" /\ diag.state = "ok") =>
        /\ \A r \in Roots : <<"green", r>> \in scanned
        /\ Made("handle_motd", GreenMotd)
        /\ Made("set_boot_status", TRUE)
        /\ ret = Ok("unit")

\* C11, amended: whenever diagnostics succeed, the flow runs the green hooks of
\* both roots, publishes the GREEN MOTD and then asks to persist boot status =
\* success; it ends with success exactly when that request succeeds and with
\* its error otherwise; green-hook errors and a failed MOTD publish change
\* neither the calls made nor the result.
C11_GreenPath ==
    /\ (pc = "done" /\ diag.state = "ok") =>
          /\ \A r \in Roots : <<"green", r>> \in scanned
          /\ Len(calls) = 3
          /\ calls[2].op = "handle_motd" /\ calls[2].arg = GreenMotd
          /\ calls[3].op = "set_boot_status" /\ calls[3].arg = TRUE
          /\ ret = IF calls[3].ok THEN Ok("unit") ELSE Err("set_boot_status")
    /\ (pc # "done" /\ diag.state = "ok") => ret = NotReturned
    /\ (pc = "set_boot_status_green") =>
          /\ diag.state = "ok"
          /\ \A r \in Roots : <<"green", r>> \in scanned
          /\ Len(calls) = 2 /\ calls[2].arg = GreenMotd

\* C11 witness: the flow ended with success although a green hook failed and
\* the GREEN MOTD could not be published.
C11_Witness ==
    /\ pc = "done"
    /\ diag.state = "ok"
    /\ ret = Ok("unit")
    /\ "green" \in tier_errors
    /\ Len(calls) = 3 /\ ~ calls[2].ok /\ calls[3].ok

\* C12: in the rollback flow, after a successful rollback the boot counter is
\* cleared before any reboot request; when clearing fails the flow ends with
\* that error and no reboot request; when it succeeds exactly one reboot is
\* requested, with immediate = true, and its result is the flow's result.
C12_RollbackSuccess ==
    (InRollback /\ calls[1].ok) =>
        /\ Len(calls) >= 2 => calls[2].op = "unset_boot_counter"
        /\ \A i \in Reboots : i = 3 /\ calls[2].ok /\ calls[i].arg = TRUE
        /\ (Len(calls) >= 2 /\ ~ calls[2].ok) =>
              /\ pc = "done"
              /\ ret = Err(calls[2].detail)
              /\ Reboots = {}
        /\ (pc = "done" /\ calls[2].ok) =>
              /\ Reboots = {3}
              /\ Len(calls) = 3
              /\ ret = IF calls[3].ok THEN Ok("unit") ELSE Err(calls[3].detail)
        /\ pc \in {"unset_boot_counter", "reboot_immediate", "done"}

\* C12 witness: the rollback succeeded, the counter was cleared and the
\* immediate reboot was requested.
C12_Witness ==
    /\ pc = "done"
    /\ InRollback
    /\ Len(calls) = 3
    /\ calls[1].ok /\ calls[2].ok /\ calls[3].ok
    /\ calls[3].op = "handle_reboot" /\ calls[3].arg = TRUE
    /\ ret = Ok("unit")

\* C13: in the rollback flow, when the rollback collaborator fails the flow
\* ends at once with its detail followed by ", Rollback is not initiated": no
\* boot-counter call and no reboot request is made.
C13_RollbackFailure ==
    (InRollback /\ ~ calls[1].ok) =>
        /\ pc = "done"
        /\ ret = Err(calls[1].detail \o ", Rollback is not initiated")
        /\ Len(calls) = 1

\* C13 witness: the rollback collaborator failed for want of a deployment.
C13_Witness ==
    /\ pc = "done"
    /\ InRollback
    /\ ~ calls[1].ok
    /\ calls[1].detail = "no rollback deployment"
    /\ ret = Err("no rollback deployment, Rollback is not initiated")

\* C16 as stated: no health-check run ends without having run diagnostics,
\* whatever the config load, the journal query and the first MOTD publish did,
\* and each run that ends went through exactly one of GREEN and RED.
C16_DiagnosticsAlwaysRun ==
    (pc = "done" /\ InHealthCheck) =>
        /\ diag.state \in {"ok", "err"}
        /\ Len(calls) >= 2
        /\ (calls[2].arg = GreenMotd) # (calls[2].arg = RedMotd)

\* C17: on the RED path the RED MOTD is published first, then the red hooks of
\* both roots run, then boot status = failure is persisted, then the boot
\* counter with the configured maximum, then the reboot with immediate = false
\* is requested, once and as the last collaborator call.
C17_RedOrder ==
    (InHealthCheck /\ diag.state = "err" /\ pc # "match_diagnostics") =>
        /\ Len(calls) >= 2 =>
              calls[2].op = "handle_motd" /\ calls[2].arg = RedMotd
        /\ (\E r \in Roots : <<"red", r>> \in scanned) => Len(calls) >= 2
        /\ <<"red", 2>> \in scanned => <<"red", 1>> \in scanned
        /\ Len(calls) >= 3 =>
              /\ calls[3].op = "set_boot_status" /\ calls[3].arg = FALSE
              /\ \A r \in Roots : <<"red", r>> \in scanned
              /\ pc \notin {"red", "red_result"}
        /\ Len(calls) >= 4 =>
              calls[4].op = "set_boot_counter" /\ calls[4].arg = config
        /\ Len(calls) >= 5 =>
              /\ calls[5].op = "handle_reboot" /\ calls[5].arg = FALSE
              /\ pc = "done"
        /\ Len(calls) <= 5
        /\ Reboots \subseteq {5}
        /\ pc = "done" => Reboots = {5}

\* C17 witness: the RED path ran to its end with a configured maximum of 2
\* after a red hook failed and the boot status could not be persisted.
C17_Witness ==
    /\ pc = "done"
    /\ diag.state = "err"
    /\ "red" \in tier_errors
    /\ Len(calls) = 5
    /\ ~ calls[3].ok
    /\ calls[4].arg = 2
    /\ calls[5].ok

\* The lines of a table whose mount-point field is /boot, the first of them,
\* and the options field of a line ("" when the line has none).
BootRecords(table) ==
    {i \in 1..Len(table) :
        LET fields == split_whitespace(table[i])
        IN Len(fields) >= 2 /\ fields[2] = BootPoint}

FirstBootRecord(table) ==
    CHOOSE i \in BootRecords(table) : \A j \in BootRecords(table) : i <= j

OptionsOf(line) ==
    LET fields == split_whitespace(line)
    IN IF Len(fields) >= 4 THEN fields[4] ELSE <<>>

\* Whether sub occurs in s as a run of consecutive characters.
Occurs(sub, s) == \E i, j \in 1..Len(s) : SubSeq(s, i, j) = sub

\* Whether the mount the first /boot record describes is read-write: its
\* access mode is the first of its comma-separated options.
MountedRw(table) ==
    LET options == OptionsOf(table[FirstBootRecord(table)])
    IN /\ Len(options) >= 2
       /\ SubSeq(options, 1, 2) = Rw
       /\ (Len(options) = 2 \/ options[3] = ",")

\* The flag before call i, and the mount table after it.
FlagBefore(i) == IF i = 1 THEN FALSE ELSE mount_log[i - 1].flag
TableAfter(i) == IF i = Len(mount_log) THEN mounts ELSE mount_log[i + 1].table

\* Call i did nothing: no syscall, the flag as before, success.
NoOp(i) ==
    /\ ~ mount_log[i].issued
    /\ mount_log[i].ret = MountOk
    /\ mount_log[i].flag = FlagBefore(i)

\* The state of /boot could be read at call i.
StateKnown(i) == mount_log[i].readable /\ BootRecords(mount_log[i].table) # {}

ErrorsRemountRoTable == <<MountLine(BootPoint, Rw \o ErrorsRemountRo)>>

\* C14 as stated: remount_boot_ro on a read-only /boot and remount_boot_rw on
\* a read-write /boot issue no syscall, leave the flag as it was and return
\* success, whatever the options of the /boot record; so a call that follows a
\* successful call of the same operation issues no syscall.
C14_Idempotent ==
    /\ \A i \in 1..Len(mount_log) :
          StateKnown(i) =>
              /\ (mount_log[i].op = "remount_boot_ro" /\ ~ MountedRw(mount_log[i].table))
                    => NoOp(i)
              /\ (mount_log[i].op = "remount_boot_rw" /\ MountedRw(mount_log[i].table))
                    => NoOp(i)
    /\ \A i \in 2..Len(mount_log) :
          (mount_log[i].op = mount_log[i - 1].op /\ mount_log[i - 1].ret = MountOk
             /\ StateKnown(i))
              => ~ mount_log[i].issued

\* C18: when /proc/mounts cannot be read or holds no record whose mount-point
\* field is /boot, and only then, the call returns MountInfoError; it then
\* issues no syscall and leaves the flag and the mount table as they were.
C18_MountInfoError ==
    \A i \in 1..Len(mount_log) :
        /\ (~ StateKnown(i)) <=> (mount_log[i].ret = MountInfoError)
        /\ (~ StateKnown(i)) =>
              /\ mount_log[i].state = MountInfoError
              /\ ~ mount_log[i].issued
              /\ mount_log[i].flags = {}
              /\ mount_log[i].flag = FlagBefore(i)
              /\ TableAfter(i) = mount_log[i].table

\* C18 witness: with /boot/efi mounted but not /boot, both operations returned
\* MountInfoError although the table could be read.
C18_Witness ==
    /\ Len(mount_log) = 2
    /\ mount_log[1].op = "remount_boot_ro" /\ mount_log[2].op = "remount_boot_rw"
    /\ mount_log[1].readable /\ mount_log[2].readable
    /\ mount_log[1].ret = MountInfoError /\ mount_log[2].ret = MountInfoError
    /\ Len(mounts) = 2
    /\ ~ BOOT_WAS_RO

\* C19: is_boot_rw decides from the first record whose mount-point field is
\* /boot alone: read-write exactly when the options of that record hold "rw"
\* and do not hold "ro" as substrings; so with "rw,errors=remount-ro" /boot is
\* taken for not read-write and remount_boot_ro returns success without a
\* syscall.
C19_SubstringTest ==
    \A i \in 1..Len(mount_log) :
        StateKnown(i) =>
            LET options == OptionsOf(mount_log[i].table[FirstBootRecord(mount_log[i].table)])
            IN /\ mount_log[i].state = IsRw(Occurs(Rw, options) /\ ~ Occurs(Ro, options))
               /\ mount_log[i].table = ErrorsRemountRoTable =>
                     /\ mount_log[i].state = IsRw(FALSE)
                     /\ mount_log[i].op = "remount_boot_ro" => NoOp(i)

\* C19 witness: remount_boot_ro on "rw,errors=remount-ro" returned success
\* without a syscall.
C19_Witness ==
    \E i \in 1..Len(mount_log) :
        /\ mount_log[i].table = ErrorsRemountRoTable
        /\ mount_log[i].readable
        /\ mount_log[i].op = "remount_boot_ro"
        /\ mount_log[i].ret = MountOk
        /\ ~ mount_log[i].issued

\* C20: the flag starts false, becomes true only in a call whose syscall
\* succeeded, is true after every such call, stays as it was in a call without
\* syscall and in one whose syscall failed (which returns RemountFailed), and
\* once true stays true.
C20_FlagMonotone ==
    /\ BOOT_WAS_RO = (IF mount_log = <<>> THEN FALSE ELSE mount_log[Len(mount_log)].flag)
    /\ \A i \in 1..Len(mount_log) :
          /\ FlagBefore(i) => mount_log[i].flag
          /\ (mount_log[i].flag # FlagBefore(i)) =>
                mount_log[i].issued /\ mount_log[i].syscall_ok /\ mount_log[i].ret = MountOk
          /\ (mount_log[i].issued /\ mount_log[i].syscall_ok) => mount_log[i].flag
          /\ (mount_log[i].issued /\ ~ mount_log[i].syscall_ok) =>
                /\ mount_log[i].flag = FlagBefore(i)
                /\ mount_log[i].ret.error = "RemountFailed"
          /\ (~ mount_log[i].issued) => mount_log[i].flag = FlagBefore(i)

\* C20 witness: the flag was set by a remount to read-only and kept through a
\* failed remount to read-write and a remount_boot_ro that had nothing to do.
C20_Witness ==
    /\ Len(mount_log) = 3
    /\ mount_log[1].op = "remount_boot_ro" /\ mount_log[1].issued /\ mount_log[1].syscall_ok
    /\ mount_log[2].op = "remount_boot_rw" /\ mount_log[2].issued /\ ~ mount_log[2].syscall_ok
    /\ mount_log[3].op = "remount_boot_ro" /\ ~ mount_log[3].issued
    /\ BOOT_WAS_RO

\* ------------------------------------------------------ MOTD banner

\* The positions in calls of the MOTD publishes, and the fallback-boot banner.
MotdCalls == {i \in 1..Len(calls) : calls[i].op = "handle_motd"}
Banner == generate_motd_message("", TRUE).prefix

\* C21: every MOTD message of a health-check run (in progress, GREEN, RED)
\* carries the fallback-boot banner exactly when the journal query reported
\* the rollback marker; after a failed query no message carries it, and the
\* flow goes on to the in-progress MOTD.
C21_MotdPrefix ==
    /\ \A i \in MotdCalls :
          /\ calls[i].arg.prefix \in {Banner, ""}
          /\ calls[i].arg.prefix = Banner <=> journal_report = "marker"
    /\ journal_report = "failed" =>
          /\ pc # "done" \/ calls # <<>>
          /\ pc = "motd_in_progress" => ret = NotReturned

\* C21 witness: a run whose journal held the marker ended after publishing
\* the in-progress and the GREEN message, both with the banner.
C21_Witness ==
    /\ pc = "done"
    /\ journal_report = "marker"
    /\ diag.state = "ok"
    /\ Cardinality(MotdCalls) = 2
    /\ \A i \in MotdCalls : calls[i].arg.prefix = Banner

\* ------------------------------------------------------ termination

\* The positions of the two flows in program order; the Ok and the Err arm of
\* health_check, and the two subcommands, are alternatives and share numbers.
StepOf ==
    [get_config |-> 1, check_previous_rollback |-> 2, motd_in_progress |-> 3,
     required |-> 4, required_result |-> 5, path_check |-> 8,
     wanted |-> 9, wanted_result |-> 10, diag_finish |-> 13, match_diagnostics |-> 14,
     green |-> 15, green_result |-> 16, motd_green |-> 19, set_boot_status_green |-> 20,
     motd_red |-> 15, red |-> 16, red_result |-> 17,
     set_boot_status_red |-> 20, set_boot_counter |-> 21, handle_reboot |-> 22,
     handle_rollback |-> 1, unset_boot_counter |-> 2, reboot_immediate |-> 3,
     done |-> 23]

\* The positions inside a `for path in GREENBOOT_INSTALL_PATHS` loop.
InLoop ==
    {"required", "required_result", "wanted", "wanted_result",
     "green", "green_result", "red", "red_result"}

\* The position of the run: the step, and inside a loop the iteration.
Position(at, r) == StepOf[at] + (IF at \in InLoop THEN 2 * (r - 1) ELSE 0)

\* The steps that return from a run_scripts call.
AfterRunScripts == {"required_result", "wanted_result", "green_result", "red_result"}

\* C22: when every artifact and every collaborator call returns, both flows
\* reach their terminal state; every step moves the run forward in program
\* order (no step is retried, no position is entered again), and every
\* run_scripts call enumerates a directory not enumerated before.
C22_Terminates ==
    /\ <>(pc = "done")
    /\ [][/\ Position(pc', root') > Position(pc, root)
          /\ pc' \in AfterRunScripts =>
                /\ scanned' # scanned
                /\ Cardinality(scanned') = Cardinality(scanned) + 1]_vars

\* C22 witness: a health check ended on the Ok arm after six tier directories
\* were enumerated (required.d, wanted.d and green.d of both roots), with
\* failures among the wanted checks and among the green hooks.
C22_Witness ==
    /\ pc = "done"
    /\ InHealthCheck
    /\ Cardinality(scanned) = 6
    /\ "wanted" \in tier_errors
    /\ "green" \in tier_errors

\* ------------------------------------------------ hooks and the skip list

\* The directories of the hook tiers.
HookDirs == {"red", "green"} \X Roots

\* C23: run_red and run_green skip nothing: every valid entry of a red.d or
\* green.d is executed, in order, also one whose name is in the skip list of
\* the diagnostics; and run_diagnostics has read no hook directory when it
\* returns, so every name of the skip list that was skipped in no required.d
\* or wanted.d is in its missing list, whatever red.d and green.d hold.
C23_HooksIgnoreSkipList ==
    /\ result.name \in {"red", "green"} =>
          /\ result.skipped = <<>>
          /\ Len(result.executed) = Len(result.entries)
          /\ \A k \in 1..Len(result.entries) :
                result.executed[k].path = result.entries[k].path
    /\ pc = "match_diagnostics" =>
          /\ scanned \cap HookDirs = {}
          /\ diag.state = "ok" => (skipped \ all_skipped) \subseteq diag.value

\* C23 witness: a green hook whose name is in the missing list (in the skip
\* list, and in no required.d or wanted.d) was executed, and failed.
C23_Witness ==
    /\ pc = "green_result"
    /\ diag.state = "ok"
    /\ \E k \in 1..Len(result.entries) :
          /\ result.entries[k].path \in diag.value
          /\ result.entries[k].status = "failed"
          /\ WasExecuted(result, result.entries[k].path)

\* ------------------------------------------------ the two arms are disjoint

\* The collaborator calls that write the boot counter.
CounterOps == {"set_boot_counter", "unset_boot_counter"}

\* C24: once diagnostics has passed, no reboot is requested, no call writes
\* the boot counter and no red.d is run; once it has failed, no green.d is run
\* and boot status = success is never persisted; and in any run, health check
\* or rollback, at most one reboot request is made.
C24_ArmsDisjoint ==
    /\ diag.state = "ok" =>
          /\ Reboots = {}
          /\ \A i \in 1..Len(calls) : calls[i].op \notin CounterOps
          /\ \A r \in Roots : <<"red", r>> \notin scanned
    /\ diag.state = "err" =>
          /\ \A r \in Roots : <<"green", r>> \notin scanned
          /\ \A i \in 1..Len(calls) :
                calls[i].op = "set_boot_status" => calls[i].arg = FALSE
    /\ Cardinality(Reboots) <= 1

\* C24 witness: a failed health check ended with the red hooks of both roots
\* run, boot status = failure and the counter persisted, and its one reboot
\* request accepted.
C24_Witness ==
    /\ pc = "done"
    /\ diag.state = "err"
    /\ \A r \in Roots : <<"red", r>> \in scanned
    /\ Succeeded("set_boot_status")
    /\ Succeeded("set_boot_counter")
    /\ Cardinality(Reboots) = 1
    /\ \A i \in Reboots : calls[i].ok

====
